---- MODULE Spec2Model ----
(***************************************************************************)
(* Request instrumentation pipeline of the TravelMemory backend            *)
(* (backend/index.js): logging, tracing and metrics middleware around the  *)
(* routes, the prom-client registry, and the /metrics exposition handler.  *)
(*                                                                         *)
(* Node runs one callback at a time and to completion, so a callback is    *)
(* one action: the middleware chain down to the route handler's first      *)
(* await, the continuation of an await, the emission of 'finish' with both *)
(* listeners.  `events` records, per request, the instrumentation calls in *)
(* the order the callback makes them.  Time is a millisecond clock with a  *)
(* 10 ms grain; it is seen only where the code reads it, so `now` is the   *)
(* value of the last read and every read says how much time has passed     *)
(* since the one before.                                                   *)
(***************************************************************************)
EXTENDS Integers, Sequences, FiniteSets, TLC

NumReq == 2
MaxTicks == 1

Reqs == 1 .. NumReq
NoTime == -1

\* process.env.PORT: absent, or the port the deployment configures.
NoPort == -1
ConfiguredPort == 3001
EnvPorts == {NoPort, ConfiguredPort}

\* Requests a client can send: method and url.  They carry no body.
TripPaths == {"/trip", "/trip/1"}
Inputs ==
  { [method |-> "GET",    path |-> "/hello"],
    [method |-> "GET",    path |-> "/metrics"],
    [method |-> "GET",    path |-> "/trip/1"] }

\* What the handlers mounted under /trip (routes/trip.routes) may do.
TripOutcomes == {"respond", "throw", "respondThrow", "async"}
TripStatuses == {200}

VARIABLES
  pc,          \* per request: position in the chain
  req,         \* per request: the input (method, path)
  url,         \* per request: req.url as the routers leave it
  statusCode,  \* per request: res.statusCode
  body,        \* per request: what was written as response body
  writes,      \* per request: number of times the response was written
  destroyed,   \* per request: the socket was destroyed after the headers went out
  thrown,      \* per request: the handler threw synchronously
  events,      \* per request: instrumentation steps in the order they ran
  span,        \* per request: the span's attributes, status and timestamps
  timer,       \* per request: the start time held by the timer's end function
  scrapeLog,   \* per request: state of the second register.metrics() call
  log,         \* the winston log stream
  counter,     \* requestCounter: label triple -> value
  hist,        \* httpRequestDurationSeconds: label triple -> series
  unhandled,   \* number of promise rejections nobody caught
  now,         \* the clock at its last read, in ms
  PORT,        \* the constant PORT, read from the environment at load
  proc,        \* the process: "starting" or "listening"
  spanExport   \* per request: where its ended span is on the way to Jaeger

vars == <<pc, req, url, statusCode, body, writes, destroyed, thrown, events, span, timer,
          scrapeLog, log, counter, hist, unhandled, now, PORT, proc,
          spanExport>>


NoInput == [method |-> "", path |-> ""]
NoSpan  == [started |-> FALSE, ended |-> FALSE, status_code |-> 0,
            method |-> "", url |-> "", status |-> "UNSET",
            startTime |-> NoTime, endTime |-> NoTime]

\* The module has been loaded with the port p in the environment; the
\* server is not listening yet.
Loaded(p) ==
  /\ PORT = p
  /\ proc = "starting"
  /\ pc = [r \in Reqs |-> "idle"]
  /\ req = [r \in Reqs |-> NoInput]
  /\ url = [r \in Reqs |-> ""]
  /\ statusCode = [r \in Reqs |-> 200]
  /\ body = [r \in Reqs |-> "none"]
  /\ writes = [r \in Reqs |-> 0]
  /\ destroyed = [r \in Reqs |-> FALSE]
  /\ thrown = [r \in Reqs |-> FALSE]
  /\ events = [r \in Reqs |-> << >>]
  /\ span = [r \in Reqs |-> NoSpan]
  /\ timer = [r \in Reqs |-> NoTime]
  /\ scrapeLog = [r \in Reqs |-> "none"]
  /\ log = << >>
  /\ counter = << >>
  /\ hist = << >>
  /\ unhandled = 0
  /\ now = 0
  /\ spanExport = [r \in Reqs |-> "none"]

\* The deployment configures the port.
Init == Loaded(ConfiguredPort)

\* Any environment, the port absent included.
InitAnyEnv == \E p \in EnvPorts : Loaded(p)

\* The process runs callbacks while it is up.
Up == proc = "listening"

\* app.listen(PORT, ...).  With PORT undefined the server listens on a port
\* the operating system picks; nothing checks that PORT is set.
Listen ==
  /\ proc = "starting"
  /\ proc' = "listening"
  /\ UNCHANGED <<pc, req, url, statusCode, body, writes, destroyed, thrown,
                 events, span, timer, scrapeLog, log, counter, hist, unhandled,
                 now, PORT, spanExport>>

\* Time that can have passed between two reads of the clock, the first of
\* them t after the last read so far.
Elapsed(t) == {d \in {10 * k : k \in 0 .. MaxTicks} : now + t + d <= 10 * MaxTicks}

\* prom-client's default histogram buckets, in ms.
Buckets == <<5, 10, 25, 50, 100, 250, 500, 1000, 2500, 5000, 10000>>
NoSeries == [count |-> 0, sum |-> 0, bucketValues |-> [i \in 1 .. Len(Buckets) |-> 0]]

\* Index of the first bucket whose bound is at least v (0: only +Inf).
findBound(v) ==
  IF \E i \in 1 .. Len(Buckets) : v <= Buckets[i]
  THEN CHOOSE i \in 1 .. Len(Buckets) :
         /\ v <= Buckets[i]
         /\ \A j \in 1 .. Len(Buckets) : v <= Buckets[j] => i <= j
  ELSE 0

\* observe that counts the observation in its bucket and in every higher
\* one, as if the stored bucket values were the cumulative ones.
observe_AllHigher(h, l, v) ==
  LET old == IF l \in DOMAIN h THEN h[l] ELSE NoSeries
      b == findBound(v)
      new == [count |-> old.count + 1,
              sum |-> old.sum + v,
              bucketValues |-> [i \in 1 .. Len(Buckets) |->
                                  IF b > 0 /\ i >= b THEN old.bucketValues[i] + 1
                                  ELSE old.bucketValues[i]]]
  IN  [k \in DOMAIN h \cup {l} |-> IF k = l THEN new ELSE h[k]]

\* observe that keeps the last observed value as the sum.
observe_LastValue(h, l, v) ==
  LET old == IF l \in DOMAIN h THEN h[l] ELSE NoSeries
      b == findBound(v)
      new == [count |-> old.count + 1,
              sum |-> v,
              bucketValues |-> [i \in 1 .. Len(Buckets) |->
                                  IF i = b THEN old.bucketValues[i] + 1
                                  ELSE old.bucketValues[i]]]
  IN  [k \in DOMAIN h \cup {l} |-> IF k = l THEN new ELSE h[k]]

\* observe that counts the observation and leaves the sum as it was.
observe_NoSum(h, l, v) ==
  LET old == IF l \in DOMAIN h THEN h[l] ELSE NoSeries
      b == findBound(v)
      new == [count |-> old.count + 1,
              sum |-> old.sum,
              bucketValues |-> [i \in 1 .. Len(Buckets) |->
                                  IF i = b THEN old.bucketValues[i] + 1
                                  ELSE old.bucketValues[i]]]
  IN  [k \in DOMAIN h \cup {l} |-> IF k = l THEN new ELSE h[k]]

\* Histogram.observe(labels, v): the series is created on first use.
observe(h, l, v) ==
  LET old == IF l \in DOMAIN h THEN h[l] ELSE NoSeries
      b == findBound(v)
      new == [count |-> old.count + 1,
              sum |-> old.sum + v,
              bucketValues |-> [i \in 1 .. Len(Buckets) |->
                                  IF i = b THEN old.bucketValues[i] + 1
                                  ELSE old.bucketValues[i]]]
  IN  [k \in DOMAIN h \cup {l} |-> IF k = l THEN new ELSE h[k]]

\* Histogram.get(): what a scrape reports for a series.  The stored bucket
\* values count the observations that fell into each bucket; the reported
\* ones are accumulated over the bounds, and +Inf is the count.
RECURSIVE accumulate(_, _)
accumulate(bv, acc) ==
  IF bv = << >> THEN << >>
  ELSE <<acc + Head(bv)>> \o accumulate(Tail(bv), acc + Head(bv))

get(series) ==
  [buckets |-> accumulate(series.bucketValues, 0),
   inf |-> series.count,
   sum |-> series.sum,
   count |-> series.count]

\* The metrics of the registry in the order they were registered: those of
\* collectDefaultMetrics() (two stand for them), then the histogram, then
\* the counter.
DefaultMetrics ==
  << [name |-> "process_cpu_user_seconds_total", type |-> "counter"],
     [name |-> "nodejs_eventloop_lag_seconds", type |-> "gauge"] >>
Registered ==
  DefaultMetrics \o
  << [name |-> "http_request_duration_seconds", type |-> "histogram"],
     [name |-> "http_request_count", type |-> "counter"] >>

\* The label sets of a metric, one after the other.
RECURSIVE seriesOf(_)
seriesOf(S) ==
  IF S = {} THEN << >>
  ELSE LET l == CHOOSE x \in S : TRUE IN <<l>> \o seriesOf(S \ {l})

Line(kind, name, type, labels, le, value) ==
  [kind |-> kind, name |-> name, type |-> type, labels |-> labels, le |-> le,
   value |-> value]

headLines(m) ==
  << Line("HELP", m.name, "", << >>, "", 0),
     Line("TYPE", m.name, m.type, << >>, "", 0) >>

\* The lines of a histogram series without the +Inf bucket.
histLines_NoInf(name, l, series) ==
  LET g == get(series) IN
  [i \in 1 .. Len(Buckets) |->
     Line("sample", name \o "_bucket", "", l, ToString(Buckets[i]), g.buckets[i])]
  \o << Line("sample", name \o "_sum", "", l, "", g.sum),
        Line("sample", name \o "_count", "", l, "", g.count) >>

\* The lines of a histogram series: a bucket line per bound, the +Inf
\* bucket, _sum and _count.
histLines(name, l, series) ==
  LET g == get(series) IN
  [i \in 1 .. Len(Buckets) |->
     Line("sample", name \o "_bucket", "", l, ToString(Buckets[i]), g.buckets[i])]
  \o << Line("sample", name \o "_bucket", "", l, "+Inf", g.inf),
        Line("sample", name \o "_sum", "", l, "", g.sum),
        Line("sample", name \o "_count", "", l, "", g.count) >>

RECURSIVE histSamples(_, _, _)
histSamples(name, h, ls) ==
  IF ls = << >> THEN << >>
  ELSE histLines(name, Head(ls), h[Head(ls)]) \o histSamples(name, h, Tail(ls))

counterSamples(name, c, ls) ==
  [i \in 1 .. Len(ls) |-> Line("sample", name, "", ls[i], "", c[ls[i]])]

\* The samples of a metric.  A default metric has one sample without
\* labels; its value is the runtime's and is not modelled.
samples(m, c, h) ==
  CASE m.name = "http_request_duration_seconds" ->
         histSamples(m.name, h, seriesOf(DOMAIN h))
    [] m.name = "http_request_count" ->
         counterSamples(m.name, c, seriesOf(DOMAIN c))
    [] OTHER -> << Line("sample", m.name, "", << >>, "", 0) >>

\* register.metrics(): for every registered metric, in order, its HELP and
\* TYPE lines and its samples.
RECURSIVE metricsText(_, _, _)
metricsText(ms, c, h) ==
  IF ms = << >> THEN << >>
  ELSE headLines(Head(ms)) \o samples(Head(ms), c, h) \o metricsText(Tail(ms), c, h)

Exposition(c, h) == metricsText(Registered, c, h)

\* inc on a counter that wraps to 0 after 1.
inc_Wrap(c, l) ==
  [k \in DOMAIN c \cup {l} |-> IF k = l
                                 THEN (IF l \in DOMAIN c THEN (c[l] + 1) % 2 ELSE 1)
                                 ELSE c[k]]

\* inc with a lost update: the series is stored as 1 instead of one more.
inc_Lost(c, l) ==
  [k \in DOMAIN c \cup {l} |-> IF k = l THEN 1 ELSE c[k]]

\* Counter.inc(labels): the series is created on first use.
inc(c, l) ==
  [k \in DOMAIN c \cup {l} |-> IF k = l
                                 THEN (IF l \in DOMAIN c THEN c[l] ELSE 0) + 1
                                 ELSE c[k]]

\* The labels the metrics listener passes: req.method, req.path, res.statusCode.
Labels(r) == <<req[r].method, url[r], statusCode[r]>>

\* req.url inside the router mounted at /trip: the mount path is cut off.
Strip(p) ==
  CASE p = "/trip"   -> "/"
    [] p = "/trip/1" -> "/1"
    [] OTHER         -> p

\* A request that can arrive: requests arrive in the order of their ids.
Arriving(r) == Up /\ pc[r] = "idle" /\ \A q \in Reqs : q < r => pc[q] # "idle"

\* The chain without the logger.info call of the first middleware.
Chain_NoLog(r, in, d) ==
  /\ Arriving(r)
  /\ req' = [req EXCEPT ![r] = in]
  /\ span' = [span EXCEPT ![r] = [@ EXCEPT !.started = TRUE,
                                            !.method = in.method,
                                            !.url = in.path,
                                            !.status_code = statusCode[r],
                                            !.startTime = now]]
  /\ timer' = [timer EXCEPT ![r] = now + d]
  /\ now' = now + d
  /\ events' = [events EXCEPT ![r] = <<"spanStart", "timerStart", "dispatch">>]
  /\ UNCHANGED <<log, PORT, proc, spanExport>>

\* A request arrives and runs down the middleware chain to its route:
\*   logging  - logger.info("Received request for ...")
\*   tracing  - startSpan, the attributes (res.statusCode is still 200),
\*              a 'finish' listener
\*   metrics  - startTimer, a 'finish' listener
\*   express.json() and cors(), which hand a request without body on
\* and the route handler is dispatched.  d is the time between startSpan and
\* startTimer.
Chain(r, in, d) ==
  /\ Arriving(r)
  /\ req' = [req EXCEPT ![r] = in]
  /\ log' = Append(log, <<"info", "Received request for", in.path>>)
  /\ span' = [span EXCEPT ![r] = [@ EXCEPT !.started = TRUE,
                                            !.method = in.method,
                                            !.url = in.path,
                                            !.status_code = statusCode[r],
                                            !.startTime = now]]
  /\ timer' = [timer EXCEPT ![r] = now + d]
  /\ now' = now + d
  /\ events' = [events EXCEPT ![r] =
                  <<"received", "spanStart", "timerStart", "dispatch">>]
  /\ UNCHANGED <<PORT, proc, spanExport>>

\* The /hello handler answering with status 201.
HelloHandler_Created(r, d) ==
  /\ Chain(r, [method |-> "GET", path |-> "/hello"], d)
  /\ url' = [url EXCEPT ![r] = "/hello"]
  /\ statusCode' = [statusCode EXCEPT ![r] = 201]
  /\ body' = [body EXCEPT ![r] = "Hello World!"]
  /\ writes' = [writes EXCEPT ![r] = 1]
  /\ pc' = [pc EXCEPT ![r] = "responded"]
  /\ UNCHANGED <<destroyed, thrown, scrapeLog, counter, hist, unhandled>>

\* app.get('/hello')
HelloHandler(r, d) ==
  /\ Chain(r, [method |-> "GET", path |-> "/hello"], d)
  /\ url' = [url EXCEPT ![r] = "/hello"]
  /\ body' = [body EXCEPT ![r] = "Hello World!"]
  /\ writes' = [writes EXCEPT ![r] = 1]
  /\ pc' = [pc EXCEPT ![r] = "responded"]
  /\ UNCHANGED <<statusCode, destroyed, thrown, scrapeLog, counter, hist,
                 unhandled>>

\* The handlers mounted at /trip.  They are not part of this file; what
\* they do with the response is left open.
TripHandler(r, in, d, o, s) ==
  /\ in.path \in TripPaths
  /\ Chain(r, in, d)
  /\ CASE o = "respond" ->
            /\ url' = [url EXCEPT ![r] = Strip(in.path)]
            /\ statusCode' = [statusCode EXCEPT ![r] = s]
            /\ body' = [body EXCEPT ![r] = "trip"]
            /\ writes' = [writes EXCEPT ![r] = 1]
            /\ pc' = [pc EXCEPT ![r] = "responded"]
            /\ UNCHANGED <<destroyed, thrown>>
       [] o = "throw" ->
            \* next(err) restores req.url; the final handler answers 500
            /\ url' = [url EXCEPT ![r] = in.path]
            /\ statusCode' = [statusCode EXCEPT ![r] = 500]
            /\ body' = [body EXCEPT ![r] = "error"]
            /\ writes' = [writes EXCEPT ![r] = 1]
            /\ thrown' = [thrown EXCEPT ![r] = TRUE]
            /\ pc' = [pc EXCEPT ![r] = "responded"]
            /\ UNCHANGED destroyed
       [] o = "respondThrow" ->
            \* the response is sent and a second res.send throws; next(err)
            \* restores req.url, and as the headers are out the final
            \* handler destroys the socket
            /\ url' = [url EXCEPT ![r] = in.path]
            /\ statusCode' = [statusCode EXCEPT ![r] = s]
            /\ body' = [body EXCEPT ![r] = "trip"]
            /\ writes' = [writes EXCEPT ![r] = 2]
            /\ destroyed' = [destroyed EXCEPT ![r] = TRUE]
            /\ thrown' = [thrown EXCEPT ![r] = TRUE]
            /\ pc' = [pc EXCEPT ![r] = "responded"]
       [] o = "async" ->
            /\ url' = [url EXCEPT ![r] = Strip(in.path)]
            /\ pc' = [pc EXCEPT ![r] = "waiting"]
            /\ UNCHANGED <<statusCode, body, writes, destroyed, thrown>>
  /\ UNCHANGED <<scrapeLog, counter, hist, unhandled>>

\* A /trip handler that went off to the database answers.
TripReply(r, s) ==
  /\ Up
  /\ pc[r] = "waiting"
  /\ statusCode' = [statusCode EXCEPT ![r] = s]
  /\ body' = [body EXCEPT ![r] = "trip"]
  /\ writes' = [writes EXCEPT ![r] = 1]
  /\ pc' = [pc EXCEPT ![r] = "responded"]
  /\ UNCHANGED <<req, url, destroyed, thrown, events, span, timer, scrapeLog,
                 log, counter, hist, unhandled, now, PORT, proc,
                 spanExport>>

\* app.get('/metrics'): set the content type, call register.metrics(), await.
MetricsHandler(r, d) ==
  /\ Chain(r, [method |-> "GET", path |-> "/metrics"], d)
  /\ url' = [url EXCEPT ![r] = "/metrics"]
  /\ pc' = [pc EXCEPT ![r] = "scrape_await"]
  /\ UNCHANGED <<statusCode, body, writes, destroyed, thrown, scrapeLog,
                 counter, hist, unhandled>>

\* ScrapeResume with the registry reset once the text has been sent.
ScrapeResume_Reset(r, ok) ==
  /\ Up
  /\ pc[r] = "scrape_await"
  /\ ok
  /\ body' = [body EXCEPT ![r] = "exposition"]
  /\ writes' = [writes EXCEPT ![r] = 1]
  /\ pc' = [pc EXCEPT ![r] = "responded"]
  /\ scrapeLog' = [scrapeLog EXCEPT ![r] = "pending"]
  /\ counter' = << >>
  /\ hist' = << >>
  /\ UNCHANGED <<req, url, statusCode, destroyed, thrown, events, span, timer,
                 log, unhandled, now, PORT, proc, spanExport>>

\* The first register.metrics() settles.  Fulfilled: the text is sent and
\* the handler goes on to the second call.  Rejected: the catch block sets
\* status 500 and calls res.end(ex) with the Error object, which res.end
\* refuses with a TypeError; that throw leaves the async handler as a
\* rejection nobody handles, and the response is never ended.  On an
\* unhandled rejection Node prints a warning and goes on, or ends the
\* process, depending on its version and flags: `unhandled` counts them, and
\* the steps of a process that goes on include those of one that ends.
ScrapeResume(r, ok) ==
  /\ Up
  /\ pc[r] = "scrape_await"
  /\ IF ok
     THEN /\ body' = [body EXCEPT ![r] = "exposition"]
          /\ writes' = [writes EXCEPT ![r] = 1]
          /\ pc' = [pc EXCEPT ![r] = "responded"]
          /\ scrapeLog' = [scrapeLog EXCEPT ![r] = "pending"]
          /\ UNCHANGED <<statusCode, unhandled>>
     ELSE /\ statusCode' = [statusCode EXCEPT ![r] = 500]
          /\ unhandled' = unhandled + 1
          /\ pc' = [pc EXCEPT ![r] = "hung"]
          /\ UNCHANGED <<body, writes, scrapeLog>>
  /\ UNCHANGED <<req, url, destroyed, thrown, events, span, timer, log,
                 counter, hist, now, PORT, proc, spanExport>>

\* The second register.metrics(), awaited for console.log after the response.
ScrapeLog(r, ok) ==
  /\ Up
  /\ scrapeLog[r] = "pending"
  /\ scrapeLog' = [scrapeLog EXCEPT ![r] = IF ok THEN "logged" ELSE "rejected"]
  /\ unhandled' = IF ok THEN unhandled ELSE unhandled + 1
  /\ UNCHANGED <<pc, req, url, statusCode, body, writes, destroyed, thrown,
                 events, span, timer, log, counter, hist, now, PORT, proc,
                 spanExport>>

\* The connection goes away before the response has been flushed: the
\* client disconnects, or the socket was destroyed.  'close' is emitted and
\* 'finish' is not; nothing listens for 'close', and the response object
\* is released with its listeners and the timer they hold.
Close(r) ==
  /\ Up
  /\ pc[r] \in {"waiting", "hung", "scrape_await", "responded"}
  /\ pc' = [pc EXCEPT ![r] = "closed"]
  /\ timer' = [timer EXCEPT ![r] = NoTime]
  /\ UNCHANGED <<req, url, statusCode, body, writes, destroyed, thrown, events,
                 span, scrapeLog, log, counter, hist, unhandled, now, PORT, proc,
                 spanExport>>

\* Finish with the metrics listener observing and not incrementing.
Finish_NoInc(r, d0, d1) ==
  /\ Up
  /\ pc[r] = "responded"
  /\ span' = [span EXCEPT ![r] = [@ EXCEPT !.ended = TRUE, !.endTime = now + d0]]
  /\ hist' = observe(hist, Labels(r), now + d0 + d1 - timer[r])
  /\ timer' = [timer EXCEPT ![r] = NoTime]
  /\ now' = now + d0 + d1
  /\ events' = [events EXCEPT ![r] = @ \o <<"spanEnd", "observe">>]
  /\ pc' = [pc EXCEPT ![r] = "finished"]
  /\ spanExport' = [spanExport EXCEPT ![r] = "queued"]
  /\ UNCHANGED <<req, url, statusCode, body, writes, destroyed, thrown,
                 scrapeLog, log, unhandled, PORT, proc, counter>>

\* Finish with 'finish' emitted again for a response that has finished.
Finish_Refire(r, d0, d1) ==
  /\ Up
  /\ pc[r] \in {"responded", "finished"}
  /\ span' = [span EXCEPT ![r] = [@ EXCEPT !.ended = TRUE, !.endTime = now + d0]]
  /\ hist' = observe(hist, Labels(r), now + d0 + d1 - timer[r])
  /\ counter' = inc(counter, Labels(r))
  /\ timer' = [timer EXCEPT ![r] = NoTime]
  /\ now' = now + d0 + d1
  /\ events' = [events EXCEPT ![r] = @ \o <<"spanEnd", "observe", "inc">>]
  /\ pc' = [pc EXCEPT ![r] = "finished"]
  /\ spanExport' = [spanExport EXCEPT ![r] = "queued"]
  /\ UNCHANGED <<req, url, statusCode, body, writes, destroyed, thrown,
                 scrapeLog, log, unhandled, PORT, proc>>

\* The response has been flushed and 'finish' is emitted; the listeners run
\* in the order they were added:
\*   the tracing middleware's - span.end(), which hands the span to the
\*                              batch processor's buffer and returns
\*   the metrics middleware's - end(labels), which stops the timer and
\*                              observes, then requestCounter.inc(labels)
\* d0 is the time since the last clock read, d1 the time between span.end
\* and the timer's stop.  Then the response object is released, and the
\* timer with it.
Finish(r, d0, d1) ==
  /\ Up
  /\ pc[r] = "responded"
  /\ span' = [span EXCEPT ![r] = [@ EXCEPT !.ended = TRUE, !.endTime = now + d0]]
  /\ hist' = observe(hist, Labels(r), now + d0 + d1 - timer[r])
  /\ counter' = inc(counter, Labels(r))
  /\ timer' = [timer EXCEPT ![r] = NoTime]
  /\ now' = now + d0 + d1
  /\ events' = [events EXCEPT ![r] = @ \o <<"spanEnd", "observe", "inc">>]
  /\ pc' = [pc EXCEPT ![r] = "finished"]
  /\ spanExport' = [spanExport EXCEPT ![r] = "queued"]
  /\ UNCHANGED <<req, url, statusCode, body, writes, destroyed, thrown,
                 scrapeLog, log, unhandled, PORT, proc>>

\* Export with a failed export thrown into the process instead of reported.
Export_Throws(ok) ==
  /\ Up
  /\ \E r \in Reqs : spanExport[r] = "queued"
  /\ spanExport' = [r \in Reqs |->
                      IF spanExport[r] = "queued"
                      THEN (IF ok THEN "sent" ELSE "dropped")
                      ELSE spanExport[r]]
  /\ unhandled' = IF ok THEN unhandled ELSE unhandled + 1
  /\ UNCHANGED <<pc, req, url, statusCode, body, writes, destroyed, thrown,
                 events, span, timer, scrapeLog, log, counter, hist,
                 now, PORT, proc>>

\* The batch span processor's timer fires (tracing.js): the buffer is handed
\* to the Jaeger exporter and emptied.  ok: the collector took the batch.
\* Otherwise the exporter reports the failure to the processor, which drops
\* the batch; nothing is queued again.
Export(ok) ==
  /\ Up
  /\ \E r \in Reqs : spanExport[r] = "queued"
  /\ spanExport' = [r \in Reqs |->
                      IF spanExport[r] = "queued"
                      THEN (IF ok THEN "sent" ELSE "dropped")
                      ELSE spanExport[r]]
  /\ UNCHANGED <<pc, req, url, statusCode, body, writes, destroyed, thrown,
                 events, span, timer, scrapeLog, log, counter, hist, unhandled,
                 now, PORT, proc>>

Next ==
  \/ Listen
  \/ \E r \in Reqs : Arriving(r) /\ \E d \in Elapsed(0) : HelloHandler(r, d)
  \/ \E r \in Reqs : Arriving(r) /\ \E d \in Elapsed(0) : MetricsHandler(r, d)
  \/ \E r \in Reqs : Arriving(r) /\
       \E in \in Inputs, d \in Elapsed(0), o \in TripOutcomes, s \in TripStatuses :
         TripHandler(r, in, d, o, s)
  \/ \E r \in Reqs, s \in TripStatuses : TripReply(r, s)
  \/ \E r \in Reqs, ok \in BOOLEAN : ScrapeResume(r, ok)
  \/ \E r \in Reqs, ok \in BOOLEAN : ScrapeLog(r, ok)
  \/ \E r \in Reqs : Close(r)
  \/ \E r \in Reqs, d0 \in Elapsed(0) : \E d1 \in Elapsed(d0) : Finish(r, d0, d1)

Spec == Init /\ [][Next]_vars

\* The same program started in any environment.
AnyEnvSpec == InitAnyEnv /\ [][Next]_vars

\* The program with the span processor's export timer running.  The timer
\* touches nothing but the spans on their way out and reads no clock of the
\* requests, so the clock is held here.
NextExport ==
  \/ Listen
  \/ \E r \in Reqs : HelloHandler(r, 0)
  \/ \E r \in Reqs : MetricsHandler(r, 0)
  \/ \E r \in Reqs, in \in Inputs, o \in TripOutcomes, s \in TripStatuses :
       TripHandler(r, in, 0, o, s)
  \/ \E r \in Reqs, s \in TripStatuses : TripReply(r, s)
  \/ \E r \in Reqs, ok \in BOOLEAN : ScrapeResume(r, ok)
  \/ \E r \in Reqs, ok \in BOOLEAN : ScrapeLog(r, ok)
  \/ \E r \in Reqs : Close(r)
  \/ \E r \in Reqs : Finish(r, 0, 0)
  \/ \E ok \in BOOLEAN : Export(ok)

ExportSpec == Init /\ [][NextExport]_vars

\* The steps Node takes for request r once their callback is ready.  A
\* request arriving and a connection going away are the client's doing,
\* and whether a /trip handler's database ever answers is the database's.
Step(r) ==
  \/ \E ok \in BOOLEAN : ScrapeResume(r, ok)
  \/ \E ok \in BOOLEAN : ScrapeLog(r, ok)
  \/ \E d0 \in Elapsed(0) : \E d1 \in Elapsed(d0) : Finish(r, d0, d1)

\* The event loop runs every callback that stays ready.
FairSpec == Spec /\ \A r \in Reqs : WF_vars(Step(r))

----------------------------------------------------------------------------
\* Helpers for the properties.

Count(seq, e) == Len(SelectSeq(seq, LAMBDA x : x = e))

\* Position of the first e in seq, 0 if there is none.
Pos(seq, e) ==
  IF \E i \in DOMAIN seq : seq[i] = e
  THEN CHOOSE i \in DOMAIN seq :
         /\ seq[i] = e
         /\ \A j \in DOMAIN seq : seq[j] = e => i <= j
  ELSE 0

CounterValue(c, l) == IF l \in DOMAIN c THEN c[l] ELSE 0
HistCount(h, l) == IF l \in DOMAIN h THEN h[l].count ELSE 0

Finalized(r) ==
  /\ Count(events[r], "observe") >= 1
  /\ Count(events[r], "inc") >= 1
  /\ Count(events[r], "spanEnd") >= 1

IsScrape(r) == req[r].method = "GET" /\ req[r].path = "/metrics"

----------------------------------------------------------------------------
\* C1: every request that entered the chain is eventually finalized
\* (observation, counter increment, span end), also when its connection
\* closes without a 'finish'.
C1_FinalizationEventuallyRuns ==
  \A r \in Reqs : (pc[r] \in {"responded", "closed"}) ~> Finalized(r)

\* C2: per request at most one span start, one span end, one observation
\* and one counter increment; exactly one of each once 'finish' has been
\* processed.
C2_AtMostOnce ==
  \A r \in Reqs :
    LET starts   == Count(events[r], "spanStart")
        ends     == Count(events[r], "spanEnd")
        observes == Count(events[r], "observe")
        incs     == Count(events[r], "inc")
    IN  /\ starts <= 1 /\ ends <= 1 /\ observes <= 1 /\ incs <= 1
        /\ span[r].ended => span[r].started
        /\ pc[r] = "finished" =>
              starts = 1 /\ ends = 1 /\ observes = 1 /\ incs = 1

\* A handler that wrote the response a second time, and threw by it after
\* having responded, has been finalized exactly once.
C2_Witness ==
  \E r \in Reqs :
    /\ pc[r] = "finished" /\ writes[r] = 2 /\ thrown[r]
    /\ Count(events[r], "spanStart") = 1 /\ Count(events[r], "spanEnd") = 1
    /\ Count(events[r], "observe") = 1 /\ Count(events[r], "inc") = 1

\* C3: a request whose handler has not produced a response still has its
\* span ended eventually: by its completion event, or else by the
\* force-close after the timeout.
C3_HungSpanForceClosed ==
  \A r \in Reqs : (pc[r] \in {"waiting", "hung"}) ~> span[r].ended

\* C4: the counter of a label triple equals the number of finished requests
\* with that triple, however their callbacks interleaved.
C4_NoLostUpdate ==
  /\ \A r \in Reqs :
       pc[r] = "finished" =>
         CounterValue(counter, Labels(r)) =
           Cardinality({q \in Reqs : pc[q] = "finished" /\ Labels(q) = Labels(r)})
  /\ \A l \in DOMAIN counter :
       counter[l] = Cardinality({q \in Reqs : pc[q] = "finished" /\ Labels(q) = l})

\* Two requests with the same labels that were in flight together (the
\* second's span started before the first's ended) have both finished and
\* the series is 2.
C4_Witness ==
  \E r, q \in Reqs :
    /\ r < q
    /\ pc[r] = "finished" /\ pc[q] = "finished"
    /\ Labels(r) = Labels(q)
    /\ span[q].startTime < span[r].endTime
    /\ CounterValue(counter, Labels(r)) = 2

\* C5: a handler that throws synchronously gets a 500 response, one
\* increment on the status 500 series, and a span ended with error status.
C5_ThrowEndsSpanWithError ==
  \A r \in Reqs :
    (thrown[r] /\ ~destroyed[r] /\ pc[r] = "finished") =>
      /\ statusCode[r] = 500
      /\ Count(events[r], "inc") = 1
      /\ CounterValue(counter, <<req[r].method, url[r], 500>>) >= 1
      /\ span[r].ended
      /\ span[r].status = "ERROR"

\* The entry steps in the order the claim gives them.
EntryOrder == <<"received", "spanStart", "timerStart", "dispatch">>
EntrySteps(r) == SelectSeq(events[r], LAMBDA e : e \in {"received", "spanStart", "timerStart", "dispatch"})

\* C6: "received" is logged exactly once per request, then the span is
\* started, then the timer, and only then the handler is dispatched: the
\* entry steps a request has taken are always an initial part of that
\* order, beginning with the log entry, and the log stream has one
\* "received" entry per request.
C6_EntryOrder ==
  /\ Len(log) = Cardinality({r \in Reqs : pc[r] # "idle"})
  /\ \A r \in Reqs :
       /\ Len(EntrySteps(r)) <= Len(EntryOrder)
       /\ EntrySteps(r) = SubSeq(EntryOrder, 1, Len(EntrySteps(r)))
       /\ pc[r] # "idle" => Len(EntrySteps(r)) >= 1

C6_Witness ==
  \E r \in Reqs : EntrySteps(r) = EntryOrder /\ pc[r] = "responded"

\* C7: on completion the timer is stopped and observed, then the counter is
\* incremented, then the span is ended, then completion is logged; the span
\* is never ended before the observation and the increment.
C7_FinalizationOrder ==
  \A r \in Reqs :
    LET e == events[r] IN
    /\ Count(e, "spanEnd") >= 1 =>
         /\ 0 < Pos(e, "observe") /\ Pos(e, "observe") < Pos(e, "spanEnd")
         /\ 0 < Pos(e, "inc") /\ Pos(e, "inc") < Pos(e, "spanEnd")
    /\ pc[r] = "finished" =>
         /\ Pos(e, "observe") < Pos(e, "inc")
         /\ Pos(e, "spanEnd") < Pos(e, "completed")

\* C8: when a request finishes, its timer interval lies inside its span
\* interval: span start <= timer start and timer stop <= span end, so the
\* observed duration is at most the span duration.  (The timer is stopped
\* by the step that finishes the request, at the time now'.)
C8_TimerInsideSpan ==
  [][\A r \in Reqs :
       (pc[r] = "responded" /\ pc'[r] = "finished") =>
         /\ span[r].startTime <= timer[r]
         /\ now' <= span'[r].endTime
         /\ now' - timer[r] <= span'[r].endTime - span[r].startTime]_vars

\* The route templates of the application: the routes of index.js, the
\* routes of the /trip router as mounted and as the router sees them, and
\* the placeholder for a request no route matched.
RouteTable == {"/hello", "/metrics", "/trip", "/trip/:id", "/", "/:id", "unknown"}

\* C9: every route label of a counter or histogram series is a route
\* template of the table, never a raw request path.
C9_RouteLabelsFromTable ==
  \A l \in DOMAIN counter \cup DOMAIN hist : l[2] \in RouteTable

C11_NoPortNeverListens ==
  PORT = NoPort => proc # "listening"

\* The catch block of the /metrics handler has run for r: nothing else sets
\* a scrape's status to 500.
ScrapeFailed(r) == IsScrape(r) /\ statusCode[r] = 500

\* C12: a scrape whose serialization failed is answered 500 with the error
\* as body, written exactly once and with no exposition text.
C12_ScrapeFailureAnswers500 ==
  \A r \in Reqs :
    ScrapeFailed(r) =>
      /\ pc[r] \in {"responded", "finished", "closed"}
      /\ writes[r] = 1
      /\ body[r] = "error"

\* C13: a failing register.metrics() call, the first or the second, changes
\* no counter or histogram series and leaves no rejection unhandled, which
\* could end the process.
C13_FailureStaysInScrape ==
  [][\A r \in Reqs :
       (\/ pc[r] = "scrape_await" /\ pc'[r] = "hung"
        \/ scrapeLog[r] = "pending" /\ scrapeLog'[r] = "rejected") =>
         /\ counter' = counter
         /\ hist' = hist
         /\ unhandled' = unhandled]_vars

HistSum(h, l) == IF l \in DOMAIN h THEN h[l].sum ELSE 0

\* The requests whose observation has been made with the labels l.
Observed(l) == {r \in Reqs : Count(events[r], "observe") >= 1 /\ Labels(r) = l}

\* C14: _count of a series is the number of observations made with its
\* labels; an observation adds 1 to _count and the observed duration to
\* _sum of its series in one step, and no other step changes a series.
C14_HistCountAndSum ==
  [][/\ \A l \in DOMAIN hist' : hist'[l].count = Cardinality(Observed(l)')
     /\ \A r \in Reqs :
          Count(events'[r], "observe") >= 1 => Labels(r)' \in DOMAIN hist'
     /\ \/ hist' = hist
        \/ \E r \in Reqs :
             /\ Count(events'[r], "observe") = Count(events[r], "observe") + 1
             /\ \A q \in Reqs : q # r => events'[q] = events[q]
             /\ LET l == Labels(r)
                    v == now' - timer[r]
                IN  /\ DOMAIN hist' = DOMAIN hist \cup {l}
                    /\ hist'[l].count = HistCount(hist, l) + 1
                    /\ hist'[l].sum = HistSum(hist, l) + v
                    /\ \A k \in DOMAIN hist : k # l => hist'[k] = hist[k]]_vars

\* Two observations of which one took time are on one series.
C14_Witness ==
  \E l \in DOMAIN hist : hist[l].count = 2 /\ hist[l].sum > 0

IsHello(r) == req[r].method = "GET" /\ req[r].path = "/hello"

\* C16: GET /hello is answered 200 "Hello World!"; its finish adds exactly 1
\* to the counter series and one observation to the histogram series
\* labelled (GET, /hello, 200) and changes no other series, and no other
\* step of the request changes the registry.
C16_HelloCounted ==
  [][\A r \in Reqs :
       (IsHello(r)' /\ pc'[r] # pc[r]) =>
         /\ statusCode'[r] = 200
         /\ body'[r] = "Hello World!"
         /\ IF pc[r] = "responded" /\ pc'[r] = "finished"
            THEN LET l == <<"GET", "/hello", 200>> IN
                 /\ DOMAIN counter' = DOMAIN counter \cup {l}
                 /\ DOMAIN hist' = DOMAIN hist \cup {l}
                 /\ counter'[l] = CounterValue(counter, l) + 1
                 /\ hist'[l].count = HistCount(hist, l) + 1
                 /\ \A k \in DOMAIN counter : k # l => counter'[k] = counter[k]
                 /\ \A k \in DOMAIN hist : k # l => hist'[k] = hist[k]
            ELSE counter' = counter /\ hist' = hist]_vars

\* A /hello request has finished and is counted next to another series.
C16_Witness ==
  \E r \in Reqs :
    /\ IsHello(r) /\ pc[r] = "finished"
    /\ statusCode[r] = 200 /\ body[r] = "Hello World!"
    /\ CounterValue(counter, <<"GET", "/hello", 200>>) >= 1
    /\ Cardinality(DOMAIN counter) >= 2

C18_CounterMonotone ==
  [][\A l \in DOMAIN counter :
       l \in DOMAIN counter' /\ counter'[l] >= counter[l]]_vars

\* A series has been incremented twice and a scrape has failed meanwhile.
C18_Witness ==
  /\ \E l \in DOMAIN counter : counter[l] >= 2
  /\ unhandled >= 1

\* What C19 asks of an exposition text of the registry (c, h).  keys holds
\* what identifies a line (kind, metric name, labels, le), lines the lines.
WellFormedLines(text, keys, lines, c, h) ==
  LET helps == SelectSeq(text, LAMBDA x : x.kind = "HELP")
      HName == "http_request_duration_seconds"
      CName == "http_request_count"
      Has(name, l, le, v) == Line("sample", name, "", l, le, v) \in lines
  IN  \* every registered metric, in registration order
      /\ Len(helps) = Len(Registered)
      /\ \A i \in DOMAIN helps : helps[i].name = Registered[i].name
      \* no line twice: as many different keys as lines
      /\ Cardinality(keys) = Len(text)
      \* every counter series, with its value
      /\ \A l \in DOMAIN c : Has(CName, l, "", c[l])
      \* every histogram series: a line per bound, +Inf equal to _count,
      \* _sum and _count
      /\ \A l \in DOMAIN h :
           /\ \A b \in 1 .. Len(Buckets) :
                <<"sample", HName \o "_bucket", l, ToString(Buckets[b])>> \in keys
           /\ Has(HName \o "_bucket", l, "+Inf", h[l].count)
           /\ Has(HName \o "_sum", l, "", h[l].sum)
           /\ Has(HName \o "_count", l, "", h[l].count)
      \* no sample of a series that is not registered
      /\ \A x \in lines :
           (x.kind = "sample" /\ x.labels # << >>) =>
             x.labels \in DOMAIN c \cup DOMAIN h

WellFormed(text, c, h) ==
  \A keys \in {{<<text[i].kind, text[i].name, text[i].labels, text[i].le>> :
                   i \in DOMAIN text}},
     lines \in {{text[i] : i \in DOMAIN text}} :
    WellFormedLines(text, keys, lines, c, h)

C21_CounterMatchesHistogram ==
  /\ DOMAIN counter = DOMAIN hist
  /\ \A l \in DOMAIN counter : counter[l] = hist[l].count

\* Two series exist, one of them counted twice, while a response still
\* waits for its 'finish'.
C21_Witness ==
  /\ \E l \in DOMAIN counter : counter[l] >= 1 /\ hist[l].count = counter[l]
  /\ \E r, q \in Reqs :
       /\ pc[r] = "finished" /\ pc[q] = "responded"
       /\ Labels(r) \in DOMAIN counter

\* C22: the status_code attribute on the span of a finished request is the
\* status its response finished with, the one on its counter series.
C22_SpanStatusIsFinalStatus ==
  \A r \in Reqs :
    pc[r] = "finished" =>
      /\ span[r].status_code = statusCode[r]
      /\ span[r].status_code = Labels(r)[3]
====
